---- MODULE Spec2Model ----
(***************************************************************************)
(* ROFLSwap off-chain order-matching oracle: the order book and crossing   *)
(* loop of MatchingEngine / MatchingEngineV5, the settlement loop of       *)
(* SettlementEngine, and the retrieve/match/execute cycle of the oracle    *)
(* variants (ROFLSwapOracle, ROFLSwapMatcher, ROFLSwapProcessor).          *)
(***************************************************************************)
EXTENDS Integers, Sequences, FiniteSets, TLC

\* ------------------------------------------------------------------------
\* Bounds of the model
\* ------------------------------------------------------------------------
MaxOrders == 3
MaxPrice == 2
MaxSize == 2
MaxCalls == 2

\* Owner addresses as the contract returns them: "0xab" and "0xAB" are the
\* same account in two spellings (checksummed / lower-case), "0xcd" another.
Owners == {"0xab", "0xAB", "0xcd"}
Tokens == {"T1", "T2"}
Engines == {"v3", "v5"}

\* An order as load_orders admits it (size > 0 and price > 0).
OrderData == [owner : Owners, token : Tokens, price : 1..MaxPrice,
              size : 1..MaxSize, isBuy : BOOLEAN]

VARIABLES
    engine,        \* which engine class the instance is
    buy_orders,    \* self.buy_orders
    sell_orders,   \* self.sell_orders
    pc,            \* position of the running method
    order_count,   \* load_orders: order_count
    order_id,      \* load_orders: loop variable
    bi,            \* find_matches: index of buy_order in the outer loop
    si,            \* find_matches: index of sell_order in the inner loop
    matches,       \* find_matches: the local list matches
    returned,      \* lists returned by find_matches since the last load_orders
    sizeAtCall,    \* orderId -> size when the running/last find_matches began
    \* SettlementEngine.execute_matches
    private_key,   \* self.private_key is set
    s_matches,     \* the argument matches
    s_pc,          \* position inside execute_matches
    s_i,           \* index of match in the for loop
    attempts,      \* receipt queries made for the current transaction
    results,       \* the local list results
    txs,           \* transactions the chain accepted, with their status
    \* the oracle cycle (ROFLSwapOracle, ROFLSwapMatcher x2, ROFLSwapProcessor)
    impl,          \* which oracle class runs
    o_pc,          \* position inside the cycle
    o_count,       \* order_count of the cycle
    o_id,          \* order_id of the retrieval loop
    orders,        \* orders retrieved in this cycle
    o_matches,     \* result of find_matches
    o_i,           \* index of the match being executed
    submitted,     \* executeMatch transactions submitted in this cycle
    outcomes,      \* per executed match: what execute_match returned and saw
    \* the scheduler entry points and the contract they settle on
    sched,         \* which entry point runs
    once,          \* run(once=True) / --once
    k_pc,          \* position of the scheduler
    cycles,        \* cycles started so far
    cycle_matches, \* matches of the running cycle, as pairs of order ids
    k_i,           \* index of the match being executed
    last_cycle,    \* how the last finished cycle ended
    exit_at,       \* position at which a KeyboardInterrupt ended the loop
    contract_oracle, \* the contract's oracle() is the signing address
    filledOrders,  \* the contract's filledOrders flags
    ledger,        \* executeMatch transactions sent, with their status
    \* rofl.py: periodic tasks and their runner threads
    periodic_tasks, \* _PERIODIC_TASKS[task_id]: absent, or its "active" flag
    runner_pc,     \* position of the task_runner thread of each task
    run_count,     \* how many times func() was called
    stop_returned, \* stop_periodic_task(task_id) has returned True
    count_at_stop, \* run_count when it returned
    \* order retrieval, query by query
    loader,        \* which retrieval code runs
    r_pc,          \* position of the retrieval loop
    r_count,       \* order_count of the loop
    r_id,          \* order_id of the loop
    r_seen,        \* per order id: the queries issued and their answers
    r_book         \* what the loop admitted, in order

engineVars == <<engine, buy_orders, sell_orders, pc, order_count, order_id, bi,
                si, matches, returned, sizeAtCall>>

settleVars == <<private_key, s_matches, s_pc, s_i, attempts, results, txs>>

oracleVars == <<impl, o_pc, o_count, o_id, orders, o_matches, o_i, submitted,
                outcomes>>

schedVars == <<sched, once, k_pc, cycles, cycle_matches, k_i, last_cycle,
               exit_at, contract_oracle, filledOrders, ledger>>

taskVars == <<periodic_tasks, runner_pc, run_count, stop_returned,
              count_at_stop>>

loadVars == <<loader, r_pc, r_count, r_id, r_seen, r_book>>

vars == <<engineVars, settleVars, oracleVars, schedVars, taskVars, loadVars>>

\* ------------------------------------------------------------------------
\* Helpers
\* ------------------------------------------------------------------------
Min(a, b) == IF a <= b THEN a ELSE b

Max(a, b) == IF a >= b THEN a ELSE b

\* str.lower() on the owner spellings
lower(s) == IF s = "0xAB" THEN "0xab" ELSE s

Front(s) == SubSeq(s, 1, Len(s) - 1)

\* an ascending sort that puts an order before the earlier orders of its price
InsertAscTiesFirst(s, o) ==
    LET k == Cardinality({i \in 1..Len(s) : s[i].price < o.price})
    IN  SubSeq(s, 1, k) \o <<o>> \o SubSeq(s, k + 1, Len(s))

\* list.sort(key=price): stable, ascending
InsertAsc(s, o) ==
    LET k == Cardinality({i \in 1..Len(s) : s[i].price <= o.price})
    IN  SubSeq(s, 1, k) \o <<o>> \o SubSeq(s, k + 1, Len(s))

RECURSIVE SortAsc(_)
SortAsc(s) == IF s = <<>> THEN <<>> ELSE InsertAsc(SortAsc(Front(s)), s[Len(s)])

\* list.sort(key=price, reverse=True): stable, descending
InsertDesc(s, o) ==
    LET k == Cardinality({i \in 1..Len(s) : s[i].price >= o.price})
    IN  SubSeq(s, 1, k) \o <<o>> \o SubSeq(s, k + 1, Len(s))

RECURSIVE SortDesc(_)
SortDesc(s) == IF s = <<>> THEN <<>> ELSE InsertDesc(SortDesc(Front(s)), s[Len(s)])

BookOrders == {buy_orders[i] : i \in 1..Len(buy_orders)}
                \cup {sell_orders[i] : i \in 1..Len(sell_orders)}

SizesOf(bs, ss) ==
    [id \in 1..MaxOrders + 1 |->
        IF \E i \in 1..Len(bs) : bs[i].orderId = id
        THEN (CHOOSE o \in {bs[i] : i \in 1..Len(bs)} : o.orderId = id).size
        ELSE IF \E i \in 1..Len(ss) : ss[i].orderId = id
        THEN (CHOOSE o \in {ss[i] : i \in 1..Len(ss)} : o.orderId = id).size
        ELSE 0]

\* ------------------------------------------------------------------------
\* load_orders
\* ------------------------------------------------------------------------
NoSizes == [id \in 1..MaxOrders + 1 |-> 0]

\* _normalize_order: the order dict with its orderId
normalize_order(d, id) ==
    [orderId |-> id, owner |-> d.owner, token |-> d.token,
     price |-> d.price, size |-> d.size]

load_orders_begin ==
    /\ pc = "idle"
    /\ \E n \in 0..MaxOrders :
         /\ order_count' = n
         /\ order_id' = 1
         /\ pc' = IF n = 0 THEN "idle" ELSE "load"
    /\ buy_orders' = <<>>
    /\ sell_orders' = <<>>
    /\ returned' = <<>>
    /\ sizeAtCall' = NoSizes
    /\ matches' = <<>>
    /\ UNCHANGED <<loadVars, settleVars, oracleVars, schedVars, taskVars, engine, bi, si>>

LoadAdvance ==
    IF order_id = order_count
    THEN /\ pc' = "idle"
         /\ order_id' = 0
         /\ order_count' = 0
    ELSE /\ pc' = "load"
         /\ order_id' = order_id + 1
         /\ UNCHANGED order_count

\* one iteration that ends in a continue: filled, fetch failure, bad size/price
load_orders_skip ==
    /\ pc = "load"
    /\ LoadAdvance
    /\ UNCHANGED <<loadVars, settleVars, oracleVars, schedVars, taskVars, engine, buy_orders, sell_orders, bi, si, matches, returned,
                   sizeAtCall>>

\* one iteration that admits the order into its book
load_orders_admit ==
    /\ pc = "load"
    /\ \E d \in OrderData :
         LET order == normalize_order(d, order_id)
         IN  IF d.isBuy
             THEN /\ buy_orders' = Append(buy_orders, order)
                  /\ UNCHANGED sell_orders
             ELSE /\ sell_orders' = Append(sell_orders, order)
                  /\ UNCHANGED buy_orders
    /\ LoadAdvance
    /\ UNCHANGED <<loadVars, settleVars, oracleVars, schedVars, taskVars, engine, bi, si, matches, returned, sizeAtCall>>

\* ------------------------------------------------------------------------
\* find_matches
\* ------------------------------------------------------------------------
TokensNeverDiffer(b, s) == FALSE

\* if buy_order['token'] != sell_order['token']: continue
TokensDiffer(b, s) == b.token # s.token

AlwaysCrosses(b, s) == TRUE

PriceAbove(b, s) == b.price > s.price

\* buy_order['price'] >= sell_order['price']
PriceCrosses(b, s) == b.price >= s.price

SameOwnerExact(b, s) == b.owner = s.owner

\* buy_order['owner'].lower() == sell_order['owner'].lower()
SameOwner(b, s) == lower(b.owner) = lower(s.owner)

AmountMax(b, s) == Max(b.size, s.size)

\* match_amount = min(buy_order['size'], sell_order['size'])
match_amount(b, s) == Min(b.size, s.size)

ExecPriceBuy(b, s) == b.price

\* 'price': sell_order['price']
ExecPrice(b, s) == s.price

NoFill(o, amount) == o

\* order['size'] -= match_amount
Fill(o, amount) == [o EXCEPT !.size = @ - amount]

\* the match dict (both engines carry the same facts under different keys)
MakeMatch(b, s, amount) ==
    [buyOrderId |-> b.orderId, sellOrderId |-> s.orderId,
     buyerAddress |-> b.owner, sellerAddress |-> s.owner,
     amount |-> amount, price |-> ExecPrice(b, s),
     buyToken |-> b.token, sellToken |-> s.token]

find_matches_empty ==
    /\ pc = "idle"
    /\ Len(returned) < MaxCalls
    /\ buy_orders = <<>> \/ sell_orders = <<>>
    /\ returned' = Append(returned, <<>>)
    /\ matches' = <<>>
    /\ sizeAtCall' = SizesOf(buy_orders, sell_orders)
    /\ UNCHANGED <<loadVars, settleVars, oracleVars, schedVars, taskVars, engine, buy_orders, sell_orders, pc, order_count, order_id,
                   bi, si>>

find_matches_begin ==
    /\ pc = "idle"
    /\ Len(returned) < MaxCalls
    /\ buy_orders # <<>>
    /\ sell_orders # <<>>
    /\ buy_orders' = SortDesc(buy_orders)
    /\ sell_orders' = SortAsc(sell_orders)
    /\ matches' = <<>>
    /\ sizeAtCall' = SizesOf(buy_orders, sell_orders)
    /\ bi' = 1
    /\ si' = 0
    /\ pc' = "outer"
    /\ UNCHANGED <<loadVars, settleVars, oracleVars, schedVars, taskVars, engine, order_count, order_id, returned>>

\* the outer for loop is exhausted: return matches
find_matches_return ==
    /\ pc = "outer"
    /\ bi > Len(buy_orders)
    /\ returned' = Append(returned, matches)
    /\ pc' = "idle"
    /\ bi' = 0
    /\ si' = 0
    /\ UNCHANGED <<loadVars, settleVars, oracleVars, schedVars, taskVars, engine, buy_orders, sell_orders, order_count, order_id,
                   matches, sizeAtCall>>

\* if buy_order['size'] <= 0: continue
outer_skip_buy ==
    /\ pc = "outer"
    /\ bi <= Len(buy_orders)
    /\ buy_orders[bi].size <= 0
    /\ bi' = bi + 1
    /\ UNCHANGED <<loadVars, settleVars, oracleVars, schedVars, taskVars, engine, buy_orders, sell_orders, pc, order_count, order_id,
                   si, matches, returned, sizeAtCall>>

outer_enter ==
    /\ pc = "outer"
    /\ bi <= Len(buy_orders)
    /\ buy_orders[bi].size > 0
    /\ pc' = "inner"
    /\ si' = 1
    /\ UNCHANGED <<loadVars, settleVars, oracleVars, schedVars, taskVars, engine, buy_orders, sell_orders, order_count, order_id, bi,
                   matches, returned, sizeAtCall>>

\* the inner for loop is exhausted: next buy order
inner_exhausted ==
    /\ pc = "inner"
    /\ si > Len(sell_orders)
    /\ pc' = "outer"
    /\ bi' = bi + 1
    /\ si' = 0
    /\ UNCHANGED <<loadVars, settleVars, oracleVars, schedVars, taskVars, engine, buy_orders, sell_orders, order_count, order_id,
                   matches, returned, sizeAtCall>>

NextSell ==
    /\ si' = si + 1
    /\ UNCHANGED <<loadVars, settleVars, oracleVars, schedVars, taskVars, engine, buy_orders, sell_orders, pc, order_count, order_id,
                   bi, matches, returned, sizeAtCall>>

InInner == pc = "inner" /\ si <= Len(sell_orders)

\* if sell_order['size'] <= 0: continue   (both engines)
inner_skip_zero ==
    /\ InInner
    /\ sell_orders[si].size <= 0
    /\ NextSell

\* MatchingEngine: if buy_order['token'] != sell_order['token']: continue
v3_skip_token ==
    /\ InInner
    /\ engine = "v3"
    /\ sell_orders[si].size > 0
    /\ TokensDiffer(buy_orders[bi], sell_orders[si])
    /\ NextSell

\* MatchingEngine: buyer and seller are the same: continue
v3_skip_self ==
    /\ InInner
    /\ engine = "v3"
    /\ sell_orders[si].size > 0
    /\ ~TokensDiffer(buy_orders[bi], sell_orders[si])
    /\ SameOwner(buy_orders[bi], sell_orders[si])
    /\ NextSell

\* MatchingEngine: else branch, "No price match"
v3_no_price ==
    /\ InInner
    /\ engine = "v3"
    /\ sell_orders[si].size > 0
    /\ ~TokensDiffer(buy_orders[bi], sell_orders[si])
    /\ ~SameOwner(buy_orders[bi], sell_orders[si])
    /\ ~PriceCrosses(buy_orders[bi], sell_orders[si])
    /\ NextSell

\* append the match, update both sizes, break when the buy order is filled
\* (filled: size == 0 in MatchingEngine, size <= 0 in MatchingEngineV5)
EmitMatch(amount) ==
    LET b == buy_orders[bi]
        s == sell_orders[si]
        nb == Fill(b, amount)
    IN  /\ matches' = Append(matches, MakeMatch(b, s, amount))
        /\ buy_orders' = [buy_orders EXCEPT ![bi] = nb]
        /\ sell_orders' = [sell_orders EXCEPT ![si] = Fill(s, amount)]
        /\ IF (engine = "v3" /\ nb.size = 0) \/ (engine = "v5" /\ nb.size <= 0)
           THEN /\ pc' = "outer"
                /\ bi' = bi + 1
                /\ si' = 0
           ELSE /\ si' = si + 1
                /\ UNCHANGED <<pc, bi>>
        /\ UNCHANGED <<loadVars, settleVars, oracleVars, schedVars, taskVars, engine, order_count, order_id, returned, sizeAtCall>>

\* MatchingEngine: price match
v3_match ==
    /\ InInner
    /\ engine = "v3"
    /\ sell_orders[si].size > 0
    /\ ~TokensDiffer(buy_orders[bi], sell_orders[si])
    /\ ~SameOwner(buy_orders[bi], sell_orders[si])
    /\ PriceCrosses(buy_orders[bi], sell_orders[si])
    /\ LET amount == match_amount(buy_orders[bi], sell_orders[si])
       IN  IF amount > 0 THEN EmitMatch(amount) ELSE NextSell

\* MatchingEngineV5: price, then token, then owner
V5Eligible(b, s) ==
    /\ PriceCrosses(b, s)
    /\ b.token = s.token
    /\ ~SameOwner(b, s)

v5_match ==
    /\ InInner
    /\ engine = "v5"
    /\ sell_orders[si].size > 0
    /\ V5Eligible(buy_orders[bi], sell_orders[si])
    /\ EmitMatch(match_amount(buy_orders[bi], sell_orders[si]))

v5_no_match ==
    /\ InInner
    /\ engine = "v5"
    /\ sell_orders[si].size > 0
    /\ ~V5Eligible(buy_orders[bi], sell_orders[si])
    /\ NextSell

\* ------------------------------------------------------------------------
\* Specification of the matching engines
\* ------------------------------------------------------------------------
SettleIdle ==
    /\ private_key = TRUE
    /\ s_matches = <<>>
    /\ s_pc = "idle"
    /\ s_i = 0
    /\ attempts = 0
    /\ results = <<>>
    /\ txs = <<>>

MaxTasks == 2

MaxRuns == 2

TaskIds == 1..MaxTasks

\* no task is registered
TasksIdle ==
    /\ periodic_tasks = [t \in TaskIds |-> "absent"]
    /\ runner_pc = [t \in TaskIds |-> "none"]
    /\ run_count = [t \in TaskIds |-> 0]
    /\ stop_returned = [t \in TaskIds |-> FALSE]
    /\ count_at_stop = [t \in TaskIds |-> 0]

\* no retrieval was made for the order id
NotSeen == [exists |-> "unasked", filled |-> "unasked", data |-> "unasked",
            owner |-> "unasked", calls |-> <<>>, ret |-> "None"]

\* no retrieval loop has run
LoadIdle ==
    /\ loader = "oracle"
    /\ r_pc = "idle"
    /\ r_count = 0
    /\ r_id = 0
    /\ r_seen = [id \in 1..MaxOrders |-> NotSeen]
    /\ r_book = <<>>

SchedIdle ==
    /\ sched = "oracle"
    /\ once = FALSE
    /\ k_pc = "start"
    /\ cycles = 0
    /\ cycle_matches = <<>>
    /\ k_i = 0
    /\ last_cycle = "none"
    /\ exit_at = "none"
    /\ contract_oracle = TRUE
    /\ filledOrders = {}
    /\ ledger = <<>>

OracleIdle ==
    /\ impl = "oracle"
    /\ o_pc = "idle"
    /\ o_count = 0
    /\ o_id = 0
    /\ orders = <<>>
    /\ o_matches = <<>>
    /\ o_i = 0
    /\ submitted = <<>>
    /\ outcomes = <<>>

EngineIdle ==
    /\ engine = "v3"
    /\ buy_orders = <<>>
    /\ sell_orders = <<>>
    /\ pc = "idle"
    /\ order_count = 0
    /\ order_id = 0
    /\ bi = 0
    /\ si = 0
    /\ matches = <<>>
    /\ returned = <<>>
    /\ sizeAtCall = [id \in 1..MaxOrders + 1 |-> 0]

Init ==
    /\ SettleIdle
    /\ SchedIdle
    /\ TasksIdle
    /\ LoadIdle
    /\ OracleIdle
    /\ engine \in Engines
    /\ buy_orders = <<>>
    /\ sell_orders = <<>>
    /\ pc = "idle"
    /\ order_count = 0
    /\ order_id = 0
    /\ bi = 0
    /\ si = 0
    /\ matches = <<>>
    /\ returned = <<>>
    /\ sizeAtCall = NoSizes

Next ==
    \/ load_orders_begin
    \/ load_orders_skip
    \/ load_orders_admit
    \/ find_matches_empty
    \/ find_matches_begin
    \/ find_matches_return
    \/ outer_skip_buy
    \/ outer_enter
    \/ inner_exhausted
    \/ inner_skip_zero
    \/ v3_skip_token
    \/ v3_skip_self
    \/ v3_no_price
    \/ v3_match
    \/ v5_match
    \/ v5_no_match

Spec == Init /\ [][Next]_vars

\* ------------------------------------------------------------------------
\* Properties of find_matches
\* ------------------------------------------------------------------------
SeqToSet(q) == {q[i] : i \in 1..Len(q)}

\* every match of the running call and of the calls that returned
AllMatches ==
    SeqToSet(matches) \cup UNION {SeqToSet(returned[c]) : c \in 1..Len(returned)}

BuyById(id) == CHOOSE o \in SeqToSet(buy_orders) : o.orderId = id

SellById(id) == CHOOSE o \in SeqToSet(sell_orders) : o.orderId = id

RECURSIVE SumTouching(_, _)
SumTouching(id, ms) ==
    IF ms = <<>> THEN 0
    ELSE (IF Head(ms).buyOrderId = id \/ Head(ms).sellOrderId = id
          THEN Head(ms).amount ELSE 0) + SumTouching(id, Tail(ms))

C2_Conservation ==
    \A o \in SeqToSet(buy_orders) \cup SeqToSet(sell_orders) :
        /\ o.size >= 0
        /\ SumTouching(o.orderId, matches) <= sizeAtCall[o.orderId]

\* a buy order swept two sell orders and is used up exactly
C2_Witness ==
    /\ Len(returned) = 1
    /\ Len(matches) = 2
    /\ matches[1].buyOrderId = matches[2].buyOrderId
    /\ SumTouching(matches[1].buyOrderId, matches) = sizeAtCall[matches[1].buyOrderId]
    /\ BuyById(matches[1].buyOrderId).size = 0

\* C3: no emitted match, of either engine, has the same owner account as buyer
\* and seller, owners compared case-insensitively.
C3_NoSelfTrade ==
    \A m \in AllMatches : lower(m.buyerAddress) # lower(m.sellerAddress)

\* a call returned no match for a crossing pair whose owners are two spellings
\* of one account
C3_Witness ==
    /\ Len(returned) >= 1
    /\ returned[1] = <<>>
    /\ Len(buy_orders) = 1
    /\ Len(sell_orders) = 1
    /\ buy_orders[1].token = sell_orders[1].token
    /\ buy_orders[1].price >= sell_orders[1].price
    /\ buy_orders[1].owner # sell_orders[1].owner
    /\ lower(buy_orders[1].owner) = lower(sell_orders[1].owner)

\* C4: a step that emits a match emits min(buy remaining, sell remaining) of
\* the pair under examination, a positive amount, and decrements exactly these
\* two orders' sizes by it before the next pair is examined.
C4_MatchStep ==
    [][Len(matches') = Len(matches) + 1 =>
        LET b == buy_orders[bi]
            s == sell_orders[si]
            m == matches'[Len(matches')]
        IN  /\ pc = "inner"
            /\ m.buyOrderId = b.orderId
            /\ m.sellOrderId = s.orderId
            /\ m.amount = Min(b.size, s.size)
            /\ m.amount > 0
            /\ buy_orders' = [buy_orders EXCEPT ![bi].size = b.size - m.amount]
            /\ sell_orders' = [sell_orders EXCEPT ![si].size = s.size - m.amount]
            /\ SubSeq(matches', 1, Len(matches)) = matches]_vars

\* the scenario of the claim, scaled: the buy takes a whole smaller sell, goes
\* on with what remains and takes that from a larger sell, which keeps 1
C4_Witness ==
    /\ engine = "v3"
    /\ Len(matches) = 2
    /\ matches[1].buyOrderId = matches[2].buyOrderId
    /\ matches[1].sellOrderId # matches[2].sellOrderId
    /\ sizeAtCall[matches[1].buyOrderId] = matches[1].amount + matches[2].amount
    /\ sizeAtCall[matches[1].sellOrderId] = matches[1].amount
    /\ sizeAtCall[matches[2].sellOrderId] = matches[2].amount + 1
    /\ BuyById(matches[1].buyOrderId).size = 0
    /\ SellById(matches[2].sellOrderId).size = 1

\* C5: two find_matches calls in succession on the same loaded book return
\* the same list.
C5_SameListTwice ==
    Len(returned) >= 2 => returned[2] = returned[1]

\* C6: if for a token the lowest sell price is above the highest buy price,
\* no match is emitted for that token.
BuysOf(t) == {o \in SeqToSet(buy_orders) : o.token = t}

SellsOf(t) == {o \in SeqToSet(sell_orders) : o.token = t}

NoCrossing(t) ==
    /\ BuysOf(t) # {}
    /\ SellsOf(t) # {}
    /\ \E s \in SellsOf(t) :
         /\ \A s2 \in SellsOf(t) : s.price <= s2.price
         /\ \E b \in BuysOf(t) :
              /\ \A b2 \in BuysOf(t) : b.price >= b2.price
              /\ s.price > b.price

C6_EarlyExit ==
    \A t \in Tokens :
        NoCrossing(t) => \A m \in AllMatches : m.buyToken # t /\ m.sellToken # t

\* one buy below two sells of its token, other owners: the call returned nothing
C6_Witness ==
    /\ engine = "v3"
    /\ Len(returned) >= 1
    /\ returned[1] = <<>>
    /\ Len(buy_orders) = 1
    /\ Len(sell_orders) = 2
    /\ \A i \in 1..2 :
         /\ sell_orders[i].token = buy_orders[1].token
         /\ sell_orders[i].price > buy_orders[1].price
         /\ lower(sell_orders[i].owner) # lower(buy_orders[1].owner)

\* ------------------------------------------------------------------------
\* SettlementEngine.execute_matches
\* ------------------------------------------------------------------------
MaxMatches == 2

\* for _ in range(30)
MaxPolls == 30

\* matches handed to execute_matches
SettleMatch == [buyOrderId : {1, 2}, sellOrderId : {3, 4}]

SettleInputs == UNION {[1..n -> SettleMatch] : n \in 0..MaxMatches}

\* receipt statuses: 1 success, 0 reverted; NoReceipt when none was obtained
NoReceipt == -1

Pending == -1

AnyReceiptSuccess(status) == TRUE

\* 'success': receipt.status == 1
ReceiptSuccess(status) == status = 1

\* a loop that stays on the match whose outcome it has just recorded
retry_match(i) == i

\* a loop that stops at the first recorded outcome
abort_loop(i) == Len(s_matches) + 1

\* for match in matches: whatever branch recorded the outcome, the loop goes
\* on with the following match
next_match(i) == i + 1

poll_forever(n) == TRUE

\* for _ in range(30): another receipt query is made while fewer than 30 were
poll_again(n) == n < MaxPolls

Result(ok, hasHash, rcpt, err) ==
    [success |-> ok, txHash |-> hasHash, match |-> s_i, receipt |-> rcpt,
     error |-> err]

execute_matches_call ==
    /\ s_pc = "idle"
    /\ \E ms \in SettleInputs : s_matches' = ms
    /\ \E k \in BOOLEAN : private_key' = k
    /\ results' = <<>>
    /\ s_i' = 1
    /\ s_pc' = "loop"
    /\ UNCHANGED <<loadVars, engineVars, oracleVars, schedVars, taskVars, attempts, txs>>

InLoop == s_pc = "loop" /\ s_i <= Len(s_matches)

\* an exception while converting, reading the nonce, building, signing or
\* sending: the except branch records the failure
settle_exception ==
    /\ InLoop
    /\ results' = Append(results, Result(FALSE, FALSE, NoReceipt, "exception"))
    /\ s_i' = next_match(s_i)
    /\ UNCHANGED <<loadVars, engineVars, oracleVars, schedVars, taskVars, private_key, s_matches, s_pc,
                   attempts, txs>>

\* if self.private_key: ... else: "No private key provided"
settle_no_key ==
    /\ InLoop
    /\ ~private_key
    /\ results' = Append(results, Result(FALSE, FALSE, NoReceipt, "nokey"))
    /\ s_i' = next_match(s_i)
    /\ UNCHANGED <<loadVars, engineVars, oracleVars, schedVars, taskVars, private_key, s_matches, s_pc,
                   attempts, txs>>

\* nonce = self.web3.eth.get_transaction_count(address): the block identifier
\* is left to its default, "latest", so the count is that of the account's
\* mined transactions; a transaction still in the pool is not counted
get_transaction_count ==
    Cardinality({k \in 1..Len(txs) : txs[k].status # Pending})

\* the nonce is read, the transaction built and signed, and
\* send_raw_transaction accepted it
settle_submit ==
    /\ InLoop
    /\ private_key
    /\ txs' = Append(txs, [match |-> s_i, status |-> Pending,
                           nonce |-> get_transaction_count])
    /\ attempts' = 0
    /\ s_pc' = "poll"
    /\ UNCHANGED <<loadVars, engineVars, oracleVars, schedVars, taskVars, private_key, s_matches, s_i,
                   results>>

\* get_transaction_receipt gave nothing or raised; sleep and try again
poll_miss ==
    /\ s_pc = "poll"
    /\ poll_again(attempts)
    /\ attempts' = attempts + 1
    /\ UNCHANGED <<loadVars, engineVars, oracleVars, schedVars, taskVars, private_key, s_matches, s_pc, s_i,
                   results, txs>>

\* get_transaction_receipt returned the receipt: break and record it
poll_receipt ==
    /\ s_pc = "poll"
    /\ poll_again(attempts)
    /\ txs[Len(txs)].status # Pending
    /\ LET status == txs[Len(txs)].status
       IN  results' = Append(results,
               Result(ReceiptSuccess(status), TRUE, status, "none"))
    /\ attempts' = 0
    /\ s_i' = next_match(s_i)
    /\ s_pc' = "loop"
    /\ UNCHANGED <<loadVars, engineVars, oracleVars, schedVars, taskVars, private_key, s_matches, txs>>

\* the loop ran out: "Transaction not confirmed after waiting"
poll_timeout ==
    /\ s_pc = "poll"
    /\ ~poll_again(attempts)
    /\ results' = Append(results, Result(FALSE, TRUE, NoReceipt, "timeout"))
    /\ attempts' = 0
    /\ s_i' = next_match(s_i)
    /\ s_pc' = "loop"
    /\ UNCHANGED <<loadVars, engineVars, oracleVars, schedVars, taskVars, private_key, s_matches, txs>>

\* return results
execute_matches_return ==
    /\ s_pc = "loop"
    /\ s_i > Len(s_matches)
    /\ s_pc' = "done"
    /\ UNCHANGED <<loadVars, engineVars, oracleVars, schedVars, taskVars, private_key, s_matches, s_i,
                   attempts, results, txs>>

\* the chain includes a pending transaction in a block, executed or reverted;
\* it takes the transaction whose nonce is the account's next one
chain_mine ==
    /\ \E k \in 1..Len(txs) :
         /\ txs[k].status = Pending
         /\ txs[k].nonce = get_transaction_count
         /\ \E st \in {0, 1} : txs' = [txs EXCEPT ![k].status = st]
    /\ UNCHANGED <<loadVars, engineVars, oracleVars, schedVars, taskVars, private_key, s_matches, s_pc, s_i,
                   attempts, results>>

InitSettle ==
    /\ EngineIdle
    /\ SchedIdle
    /\ TasksIdle
    /\ LoadIdle
    /\ OracleIdle
    /\ SettleIdle

NextSettle ==
    \/ execute_matches_call
    \/ settle_exception
    \/ settle_no_key
    \/ settle_submit
    \/ poll_miss
    \/ poll_receipt
    \/ poll_timeout
    \/ execute_matches_return
    \/ chain_mine

SpecSettle == InitSettle /\ [][NextSettle]_vars

\* the transaction submitted for results[k], if any
TxOf(k) == {t \in SeqToSet(txs) : t.match = results[k].match}

\* C7: a result has success = TRUE exactly when a receipt with status 1 was
\* obtained for its match; a reverted receipt, no receipt within the polling
\* budget, a missing key and an exception all give success = FALSE.
C7_SuccessIffReceiptOk ==
    \A k \in 1..Len(results) :
        LET r == results[k]
        IN  /\ r.success <=> (r.receipt = 1)
            /\ r.receipt # NoReceipt =>
                   /\ r.txHash
                   /\ \E t \in TxOf(k) : t.status = r.receipt
            /\ r.error \in {"exception", "nokey", "timeout"} =>
                   r.receipt = NoReceipt /\ ~r.success

\* one call settled two matches: the first reverted and is recorded as failed,
\* the second was confirmed with status 1 and is recorded as successful
C7_Witness ==
    /\ s_pc = "done"
    /\ Len(results) = 2
    /\ results[1].receipt = 0
    /\ ~results[1].success
    /\ results[2].receipt = 1
    /\ results[2].success

\* ------------------------------------------------------------------------
\* The oracle cycle: retrieve every order, find matches, execute each match
\* ------------------------------------------------------------------------
Impls == {"oracle", "oracle_matching", "matcher", "processor"}

OracleOwners == {"0xab", "0xcd"}

\* a decoded, unfilled order as retrieve_order returns it
OracleOrderData == [owner : OracleOwners, token : Tokens, price : 1..MaxPrice,
                    size : 1..MaxSize, isBuy : BOOLEAN]

BuysIn(os) == SelectSeq(os, LAMBDA o : o.isBuy)

SellsIn(os) == SelectSeq(os, LAMBDA o : ~o.isBuy)

Pair(buy, sell, q) == [buy |-> buy, sell |-> sell, quantity |-> q]

\* ROFLSwapOracle.find_matches and ROFLSwapProcessor._find_matches: every
\* crossing pair of one token, sizes never updated
RECURSIVE SimpleScan(_, _, _)
SimpleScan(buys, sells, n) ==
    IF n > Len(buys) * Len(sells) THEN <<>>
    ELSE LET buy == buys[((n - 1) \div Len(sells)) + 1]
             sell == sells[((n - 1) % Len(sells)) + 1]
             match_quantity == Min(buy.size, sell.size)
         IN  (IF /\ buy.token = sell.token
                 /\ buy.price >= sell.price
                 /\ match_quantity > 0
              THEN <<Pair(buy, sell, match_quantity)>>
              ELSE <<>>) \o SimpleScan(buys, sells, n + 1)

oracle_find_matches(os) == SimpleScan(BuysIn(os), SellsIn(os), 1)

processor_find_matches(os) == SimpleScan(BuysIn(os), SellsIn(os), 1)

\* roflswapapp ROFLSwapMatcher.find_matches: a pair is taken only when neither
\* order is in an earlier match
RECURSIVE MatcherScan(_, _, _, _)
MatcherScan(buys, sells, n, acc) ==
    IF n > Len(buys) * Len(sells) THEN acc
    ELSE LET buy_order == buys[((n - 1) \div Len(sells)) + 1]
             sell_order == sells[((n - 1) % Len(sells)) + 1]
             matched_quantity == Min(buy_order.size, sell_order.size)
             already_matched ==
                 \E k \in 1..Len(acc) :
                     \/ acc[k].buy.orderId = buy_order.orderId
                     \/ acc[k].sell.orderId = sell_order.orderId
         IN  IF \/ buy_order.token # sell_order.token
                \/ buy_order.price < sell_order.price
                \/ already_matched
             THEN MatcherScan(buys, sells, n + 1, acc)
             ELSE MatcherScan(buys, sells, n + 1,
                      Append(acc, Pair(buy_order, sell_order, matched_quantity)))

matcher_find_matches(os) == MatcherScan(BuysIn(os), SellsIn(os), 1, <<>>)

\* rofl_app ROFLSwapMatcher.find_matches: sorted books, amounts decremented,
\* owners compared as they are
RECURSIVE OMScan(_, _, _, _, _)
OMScan(buys, sells, i, j, acc) ==
    IF i > Len(buys) THEN acc
    ELSE IF j > Len(sells) THEN OMScan(buys, sells, i + 1, 1, acc)
    ELSE LET b == buys[i]
             s == sells[j]
             quantity == Min(b.size, s.size)
         IN  IF \/ b.token # s.token
                \/ b.price < s.price
                \/ b.owner = s.owner
                \/ quantity <= 0
             THEN OMScan(buys, sells, i, j + 1, acc)
             ELSE LET nb == [buys EXCEPT ![i].size = @ - quantity]
                      ns == [sells EXCEPT ![j].size = @ - quantity]
                      acc2 == Append(acc, Pair(b, s, quantity))
                  IN  IF nb[i].size = 0
                      THEN OMScan(nb, ns, i + 1, 1, acc2)
                      ELSE OMScan(nb, ns, i, j + 1, acc2)

oracle_matching_find_matches(os) ==
    OMScan(SortDesc(BuysIn(os)), SortAsc(SellsIn(os)), 1, 1, <<>>)

FindMatchesOf(im, os) ==
    CASE im = "oracle" -> oracle_find_matches(os)
      [] im = "processor" -> processor_find_matches(os)
      [] im = "matcher" -> matcher_find_matches(os)
      [] im = "oracle_matching" -> oracle_matching_find_matches(os)

\* the price argument of executeMatch
ExecArgPrice(im, m) ==
    CASE im = "oracle" -> m.buy.price
      [] im = "processor" -> m.buy.price
      [] im = "matcher" -> m.buy.price
      [] im = "oracle_matching" -> m.sell.price

\* What the chain did with one submission:
\*   "rejected"  nothing was submitted (the submission raised or was refused)
\*   "ok"        a receipt with status 1 came back
\*   "reverted"  a receipt with status 0 came back
\*   "noreceipt" submitted, but no receipt was obtained
Fates == {"rejected", "ok", "reverted", "noreceipt"}

\* ROFLSwapOracle.execute_match: True once wait_for_transaction_receipt
\* returned, whatever the receipt's status; False when anything raised
oracle_execute_ret(fate) ==
    IF fate \in {"ok", "reverted"} THEN "True" ELSE "False"

\* rofl_app ROFLSwapMatcher.execute_match: the receipt's status when the
\* result carries a receipt, True when it carries none
oracle_matching_execute_ret(fate) ==
    IF fate \in {"ok", "noreceipt"} THEN "True" ELSE "False"

\* roflswapapp ROFLSwapMatcher.execute_match: receipt.status == 1
matcher_execute_ret(fate) ==
    IF fate = "ok" THEN "True" ELSE "False"

\* ROFLSwapProcessor._execute_match returns nothing
processor_execute_ret(fate) == "None"

ExecRetOf(im, fate) ==
    CASE im = "oracle" -> oracle_execute_ret(fate)
      [] im = "processor" -> processor_execute_ret(fate)
      [] im = "matcher" -> matcher_execute_ret(fate)
      [] im = "oracle_matching" -> oracle_matching_execute_ret(fate)

\* the processor submits and does not wait: it never sees a receipt
FatesOf(im) ==
    IF im = "processor" THEN {"rejected", "noreceipt"} ELSE Fates

\* order_count = getTotalOrderCount()
cycle_begin ==
    /\ o_pc = "idle"
    /\ \E n \in 0..MaxOrders : o_count' = n
    /\ o_id' = 1
    /\ orders' = <<>>
    /\ o_matches' = <<>>
    /\ o_i' = 0
    /\ submitted' = <<>>
    /\ outcomes' = <<>>
    /\ o_pc' = "retrieve"
    /\ UNCHANGED <<loadVars, engineVars, settleVars, schedVars, taskVars, impl>>

\* How far one retrieve_order call got:
\*   "exists_error"  orderExists(order_id).call() raised
\*   "not_exists"    orderExists returned False
\*   "filled_error"  filledOrders(order_id).call() raised
\*   "filled"        filledOrders returned True
\*   "call_error"    authenticated_call("getEncryptedOrder") raised
\*   "empty"         it returned nothing
\*   "owner_error"   authenticated_call("getOrderOwner") raised
\*   "no_owner"      it returned nothing
\*   "decode_error"  decode_abi raised inside _decode_order
\*   "decoded"       every step went through
RetrieveErrors == {"exists_error", "filled_error", "call_error", "owner_error",
                   "decode_error"}

RetrieveSteps == RetrieveErrors \cup {"not_exists", "filled", "empty",
                                      "no_owner", "decoded"}

\* retrieve_order without its try/except: an error leaves the call as an
\* exception
retrieve_order_unguarded(step) ==
    IF step = "decoded" THEN "order"
    ELSE IF step \in RetrieveErrors THEN "raise"
    ELSE "None"

\* retrieve_order: the early returns give None, and except Exception turns
\* every error into None as well
retrieve_order_ret(step) ==
    IF step = "decoded" THEN "order" ELSE "None"

\* retrieve_order(order_id) gave no order: the loop goes on with the next id;
\* an exception leaving the call would end the try block of the cycle
retrieve_none ==
    /\ o_pc = "retrieve"
    /\ o_id <= o_count
    /\ \E step \in RetrieveSteps :
         /\ retrieve_order_ret(step) # "order"
         /\ IF retrieve_order_ret(step) = "raise"
            THEN o_pc' = "idle" /\ o_id' = o_id
            ELSE o_pc' = o_pc /\ o_id' = o_id + 1
    /\ UNCHANGED <<loadVars, engineVars, settleVars, schedVars, taskVars, impl, o_count, orders,
                   o_matches, o_i, submitted, outcomes>>

\* retrieve_order(order_id) returned the decoded order
retrieve_order ==
    /\ o_pc = "retrieve"
    /\ o_id <= o_count
    /\ \E step \in RetrieveSteps : retrieve_order_ret(step) = "order"
    /\ \E d \in OracleOrderData :
         orders' = Append(orders,
             [orderId |-> o_id, owner |-> d.owner, token |-> d.token,
              price |-> d.price, size |-> d.size, isBuy |-> d.isBuy])
    /\ o_id' = o_id + 1
    /\ UNCHANGED <<loadVars, engineVars, settleVars, schedVars, taskVars, impl, o_pc, o_count, o_matches,
                   o_i, submitted, outcomes>>

\* matches = self.find_matches(orders)
cycle_find ==
    /\ o_pc = "retrieve"
    /\ o_id > o_count
    /\ o_matches' = FindMatchesOf(impl, orders)
    /\ o_i' = 1
    /\ o_pc' = "execute"
    /\ UNCHANGED <<loadVars, engineVars, settleVars, schedVars, taskVars, impl, o_count, o_id, orders,
                   submitted, outcomes>>

\* execute_match(buy_order, sell_order, quantity) for the next match
execute_match ==
    /\ o_pc = "execute"
    /\ o_i <= Len(o_matches)
    /\ \E fate \in FatesOf(impl) :
         LET m == o_matches[o_i]
             tx == [buyOrderId |-> m.buy.orderId,
                    sellOrderId |-> m.sell.orderId,
                    buyerAddress |-> m.buy.owner,
                    sellerAddress |-> m.sell.owner,
                    token |-> m.buy.token,
                    quantity |-> m.quantity,
                    price |-> ExecArgPrice(impl, m)]
         IN  /\ submitted' = IF fate = "rejected" THEN submitted
                             ELSE Append(submitted, tx)
             /\ outcomes' = Append(outcomes,
                    [match |-> o_i, fate |-> fate, ret |-> ExecRetOf(impl, fate)])
    /\ o_i' = o_i + 1
    /\ UNCHANGED <<loadVars, engineVars, settleVars, schedVars, taskVars, impl, o_pc, o_count, o_id, orders,
                   o_matches>>

\* every match was attempted: sleep until the next cycle
cycle_end ==
    /\ o_pc = "execute"
    /\ o_i > Len(o_matches)
    /\ o_pc' = "idle"
    /\ UNCHANGED <<loadVars, engineVars, settleVars, schedVars, taskVars, impl, o_count, o_id, orders,
                   o_matches, o_i, submitted, outcomes>>

InitOracle ==
    /\ EngineIdle
    /\ SchedIdle
    /\ TasksIdle
    /\ LoadIdle
    /\ SettleIdle
    /\ impl \in Impls
    /\ o_pc = "idle"
    /\ o_count = 0
    /\ o_id = 0
    /\ orders = <<>>
    /\ o_matches = <<>>
    /\ o_i = 0
    /\ submitted = <<>>
    /\ outcomes = <<>>

NextOracle ==
    \/ cycle_begin
    \/ retrieve_none
    \/ retrieve_order
    \/ cycle_find
    \/ execute_match
    \/ cycle_end

SpecOracle == InitOracle /\ [][NextOracle]_vars

OrderOf(id) == CHOOSE o \in SeqToSet(orders) : o.orderId = id

RECURSIVE SumSubmitted(_, _)
SumSubmitted(id, txq) ==
    IF txq = <<>> THEN 0
    ELSE (IF Head(txq).buyOrderId = id \/ Head(txq).sellOrderId = id
          THEN Head(txq).quantity ELSE 0) + SumSubmitted(id, Tail(txq))

\* C8: in ROFLSwapOracle and rofl_app's ROFLSwapMatcher, execute_match
\* returns True only when a receipt with success status was obtained; a
\* reverted receipt and a submission without a receipt are failures.
C8_TrueOnlyOnReceiptOk ==
    impl \in {"oracle", "oracle_matching"} =>
        \A k \in 1..Len(outcomes) :
            outcomes[k].ret = "True" => outcomes[k].fate = "ok"

\* C9: the price argument of every submitted executeMatch is the sell
\* order's price (ROFLSwapOracle, roflswapapp ROFLSwapMatcher,
\* ROFLSwapProcessor).
C9_PriceIsSellPrice ==
    impl \in {"oracle", "matcher", "processor"} =>
        \A k \in 1..Len(submitted) :
            submitted[k].price = OrderOf(submitted[k].sellOrderId).price

\* C10: within one cycle the quantities of the submitted matches that touch
\* an order sum to at most that order's size (ROFLSwapOracle,
\* ROFLSwapProcessor).
C10_CycleConservation ==
    impl \in {"oracle", "processor"} =>
        \A k \in 1..Len(orders) :
            SumSubmitted(orders[k].orderId, submitted) <= orders[k].size

\* C11: no match submitted by the oracle loop has one account as buyer and
\* seller (ROFLSwapOracle.find_matches, roflswapapp ROFLSwapMatcher.find_matches).
C11_OracleNoSelfTrade ==
    impl \in {"oracle", "matcher"} =>
        \A k \in 1..Len(submitted) :
            submitted[k].buyerAddress # submitted[k].sellerAddress

\* the submission that a step appends to txs, if it appends one
Submits == Len(txs') = Len(txs) + 1

\* C12: execute_matches handles the matches one at a time in input order:
\* results[k] refers to matches[k], a transaction for match k is sent only
\* when the outcomes of matches 1..k-1 are all recorded and none for k is,
\* and the call returns one result per input match whatever failed on the way.
C12_Sequential ==
    /\ [](/\ \A k \in 1..Len(results) : results[k].match = k
          /\ Len(results) <= Len(s_matches)
          /\ s_pc = "done" => Len(results) = Len(s_matches))
    /\ [][Submits =>
            /\ txs'[Len(txs')].match = Len(results) + 1
            /\ \A k \in 1..Len(txs) : txs[k].match < txs'[Len(txs')].match]_vars

\* the first of two matches failed with an exception before anything was sent
\* and the second was nevertheless submitted and its outcome recorded
C12_Witness ==
    /\ s_pc = "done"
    /\ Len(s_matches) = 2
    /\ Len(results) = 2
    /\ results[1].error = "exception"
    /\ results[2].txHash
    /\ Len(txs) = 1
    /\ txs[1].match = 2

\* ------------------------------------------------------------------------
\* One process settling matches: either SettlementEngine.execute_matches
\* (main.py) or the cycle of ROFLSwapOracle.log_loop
\* ------------------------------------------------------------------------
InitSubmit ==
    /\ EngineIdle
    /\ SchedIdle
    /\ TasksIdle
    /\ LoadIdle
    /\ SettleIdle
    /\ OracleIdle

NextSubmit ==
    \/ (OracleIdle /\ NextSettle)
    \/ (SettleIdle /\ NextOracle)

SpecSubmit == InitSubmit /\ [][NextSubmit]_vars

\* the number of execute_match calls of the cycle that reached the chain
RECURSIVE Reached(_)
Reached(outs) ==
    IF outs = <<>> THEN 0
    ELSE (IF Head(outs).fate # "rejected" THEN 1 ELSE 0) + Reached(Tail(outs))

\* C13: within one cycle a match is submitted at most once whatever its
\* outcome: execute_matches sends no two transactions for one match, and the
\* loop of ROFLSwapOracle calls execute_match once per match, each call
\* submitting at most one transaction.
C13_SubmittedOnce ==
    /\ \A j, k \in 1..Len(txs) : txs[j].match = txs[k].match => j = k
    /\ Len(txs) <= Len(s_matches)
    /\ \A k \in 1..Len(outcomes) : outcomes[k].match = k
    /\ Len(outcomes) <= Len(o_matches)
    /\ Len(submitted) = Reached(outcomes)

\* a call of execute_matches ended with a confirmation timeout on the first
\* match and a revert on the second, each submitted exactly once
C13_Witness ==
    /\ s_pc = "done"
    /\ Len(results) = 2
    /\ results[1].error = "timeout"
    /\ results[2].receipt = 0
    /\ Len(txs) = 2
    /\ txs[1].match = 1
    /\ txs[2].match = 2

\* C14: ROFLSwapOracle.retrieve_order never raises: a call that fails at any
\* step returns None, the retrieval loop stays in the cycle and goes on with
\* the next order id, and an order retrieved after a failed one is appended
\* to the book; when matching starts every id has had its call.
C14_RetrieveNeverRaises ==
    /\ [](impl = "oracle" /\ o_pc = "execute" => o_id = o_count + 1)
    /\ [][impl = "oracle" /\ o_pc = "retrieve" /\ o_id <= o_count =>
            /\ o_pc' = "retrieve"
            /\ o_id' = o_id + 1
            /\ \/ orders' = orders
               \/ /\ Len(orders') = Len(orders) + 1
                  /\ orders'[Len(orders')].orderId = o_id
                  /\ SubSeq(orders', 1, Len(orders)) = orders]_vars

\* of three order ids the second could not be retrieved, and the first and
\* the third are in the book when matching starts
C14_Witness ==
    /\ impl = "oracle"
    /\ o_pc = "execute"
    /\ o_count = 3
    /\ Len(orders) = 2
    /\ orders[1].orderId = 1
    /\ orders[2].orderId = 3

\* ------------------------------------------------------------------------
\* The scheduler entry points: ROFLSwapOracle.run / log_loop, main_v5.main /
\* ROFLSwapProcessor.run_once / run_continuous, ROFLSwapMatcher.run /
\* process_orders_loop, and the contract they settle on. The order data of a
\* cycle are those of the oracle cycle above; here a match is the pair of
\* order ids it settles.
\* ------------------------------------------------------------------------
MaxCycles == 2

Scheds == {"oracle", "main_v5", "oracle_matching"}

\* positions between the start of a cycle and its end
InCycle == {"collect", "execute", "wait"}

IdPairs(ids) == {p \in [buyOrderId : ids, sellOrderId : ids] :
                    p.buyOrderId # p.sellOrderId}

\* the lists find_matches can return over the orders with these ids: a pair
\* is emitted once, and an order has one side
MatchLists(ids) ==
    {ms \in UNION {[1..n -> IdPairs(ids)] : n \in 0..MaxMatches} :
        /\ \A j, k \in 1..Len(ms) : ms[j] = ms[k] => j = k
        /\ \A j, k \in 1..Len(ms) : ms[j].buyOrderId # ms[k].sellOrderId}

\* an executeMatch that pays no attention to the filled flags
executeMatch_unchecked(filled, registered, tx) == registered

\* executeMatch goes through only when neither order is filled and the
\* caller is the registered oracle; otherwise it reverts
executeMatch_accepts(filled, registered, tx) ==
    /\ registered
    /\ tx.buyOrderId \notin filled
    /\ tx.sellOrderId \notin filled

\* a loop without a try block: the exception leaves the entry point
uncaught(is_once) == "raised"

\* where an exception raised inside a cycle takes the scheduler: the while
\* loops catch it and go to sleep; the single cycle of run(once=True) and of
\* main --once has no except clause
after_exception(is_once) == IF is_once THEN "raised" ELSE "ready"

\* ROFLSwapOracle.run: set_oracle_address, whose every failure is logged and
\* swallowed, then the cycles
\*   "call_error"   contract.functions.oracle().call() raised
\*   "match"        oracle() is the signing address
\*   "updated"      setOracle was sent and executed
\*   "reverted"     setOracle was sent and reverted (status is not read)
\*   "submit_error" submit_tx or wait_for_transaction_receipt raised
oracle_run ==
    /\ k_pc = "start"
    /\ sched = "oracle"
    /\ \E r \in {"call_error", "match", "updated", "reverted", "submit_error"} :
         /\ r = "match" => contract_oracle
         /\ r \in {"updated", "reverted", "submit_error"} => ~contract_oracle
         /\ contract_oracle' = IF r = "updated" THEN TRUE ELSE contract_oracle
    /\ k_pc' = "ready"
    /\ UNCHANGED <<loadVars, engineVars, settleVars, oracleVars, taskVars, sched, once, cycles,
                   cycle_matches, k_i, last_cycle, exit_at, filledOrders,
                   ledger>>

\* main_v5.main and ROFLSwapMatcher.run go to their cycles directly
main_entry ==
    /\ k_pc = "start"
    /\ sched # "oracle"
    /\ k_pc' = "ready"
    /\ UNCHANGED <<loadVars, engineVars, settleVars, oracleVars, taskVars, sched, once, cycles,
                   cycle_matches, k_i, last_cycle, exit_at, contract_oracle,
                   filledOrders, ledger>>

\* the top of the while loop, or the single cycle
sched_cycle_begin ==
    /\ k_pc = "ready"
    /\ cycles < MaxCycles
    /\ cycles' = cycles + 1
    /\ cycle_matches' = <<>>
    /\ k_i' = 1
    /\ k_pc' = "collect"
    /\ UNCHANGED <<loadVars, engineVars, settleVars, oracleVars, taskVars, sched, once,
                   last_cycle, exit_at, contract_oracle, filledOrders, ledger>>

\* order count, retrieval of the orders that exist, are not filled and
\* decode, and find_matches over them
sched_collect ==
    /\ k_pc = "collect"
    /\ \E ms \in MatchLists((1..MaxOrders) \ filledOrders) : cycle_matches' = ms
    /\ k_pc' = "execute"
    /\ UNCHANGED <<loadVars, engineVars, settleVars, oracleVars, taskVars, sched, once, cycles,
                   k_i, last_cycle, exit_at, contract_oracle, filledOrders,
                   ledger>>

\* an exception inside the cycle (getTotalOrderCount().call() failing, zip
\* over the None of check_token_approvals, ...) reaches the cycle boundary
sched_raise ==
    /\ k_pc = "collect"
    /\ last_cycle' = "error"
    /\ k_pc' = after_exception(once)
    /\ UNCHANGED <<loadVars, engineVars, settleVars, oracleVars, taskVars, sched, once, cycles,
                   cycle_matches, k_i, exit_at, contract_oracle, filledOrders,
                   ledger>>

\* execute_match: the transaction is sent, or sending raises and the match
\* is given up
sched_submit ==
    /\ k_pc = "execute"
    /\ k_i <= Len(cycle_matches)
    /\ \E sent \in BOOLEAN :
         IF sent
         THEN /\ ledger' = Append(ledger,
                     [buyOrderId |-> cycle_matches[k_i].buyOrderId,
                      sellOrderId |-> cycle_matches[k_i].sellOrderId,
                      cycle |-> cycles, status |-> Pending])
              /\ k_pc' = "wait"
              /\ k_i' = k_i
         ELSE /\ ledger' = ledger
              /\ k_pc' = k_pc
              /\ k_i' = k_i + 1
    /\ UNCHANGED <<loadVars, engineVars, settleVars, oracleVars, taskVars, sched, once, cycles,
                   cycle_matches, last_cycle, exit_at, contract_oracle,
                   filledOrders>>

\* wait_for_transaction_receipt returned the receipt
sched_receipt ==
    /\ k_pc = "wait"
    /\ ledger[Len(ledger)].status # Pending
    /\ k_i' = k_i + 1
    /\ k_pc' = "execute"
    /\ UNCHANGED <<loadVars, engineVars, settleVars, oracleVars, taskVars, sched, once, cycles,
                   cycle_matches, last_cycle, exit_at, contract_oracle,
                   filledOrders, ledger>>

\* wait_for_transaction_receipt ran out of time: execute_match catches the
\* exception, and the transaction stays with the chain
sched_timeout ==
    /\ k_pc = "wait"
    /\ ledger[Len(ledger)].status = Pending
    /\ k_i' = k_i + 1
    /\ k_pc' = "execute"
    /\ UNCHANGED <<loadVars, engineVars, settleVars, oracleVars, taskVars, sched, once, cycles,
                   cycle_matches, last_cycle, exit_at, contract_oracle,
                   filledOrders, ledger>>

\* every match was attempted: sleep, or return from the single cycle
sched_cycle_end ==
    /\ k_pc = "execute"
    /\ k_i > Len(cycle_matches)
    /\ last_cycle' = "completed"
    /\ k_pc' = IF once THEN "returned" ELSE "ready"
    /\ UNCHANGED <<loadVars, engineVars, settleVars, oracleVars, taskVars, sched, once, cycles,
                   cycle_matches, k_i, exit_at, contract_oracle, filledOrders,
                   ledger>>

\* the chain executes a transaction it holds: executeMatch marks both orders
\* filled when it goes through, and may revert for reasons of its own
contract_mine ==
    /\ \E k \in 1..Len(ledger) :
         /\ ledger[k].status = Pending
         /\ \E ok \in BOOLEAN :
              /\ ok => executeMatch_accepts(filledOrders, contract_oracle,
                                            ledger[k])
              /\ ledger' = [ledger EXCEPT ![k].status = IF ok THEN 1 ELSE 0]
              /\ filledOrders' =
                     IF ok THEN filledOrders \cup {ledger[k].buyOrderId,
                                                   ledger[k].sellOrderId}
                     ELSE filledOrders
    /\ UNCHANGED <<loadVars, engineVars, settleVars, oracleVars, taskVars, sched, once, k_pc,
                   cycles, cycle_matches, k_i, last_cycle, exit_at,
                   contract_oracle>>

\* KeyboardInterrupt while the loop runs: no except Exception clause catches
\* it, run / main log it and return
keyboard_interrupt ==
    /\ ~once
    /\ k_pc \in InCycle \cup {"ready"}
    /\ exit_at' = k_pc
    /\ k_pc' = "interrupted"
    /\ UNCHANGED <<loadVars, engineVars, settleVars, oracleVars, taskVars, sched, once, cycles,
                   cycle_matches, k_i, last_cycle, contract_oracle,
                   filledOrders, ledger>>

InitSched ==
    /\ EngineIdle
    /\ TasksIdle
    /\ LoadIdle
    /\ SettleIdle
    /\ OracleIdle
    /\ sched \in Scheds
    /\ once \in BOOLEAN
    /\ sched = "oracle_matching" => ~once
    /\ k_pc = "start"
    /\ cycles = 0
    /\ cycle_matches = <<>>
    /\ k_i = 0
    /\ last_cycle = "none"
    /\ exit_at = "none"
    /\ contract_oracle \in BOOLEAN
    /\ filledOrders \in SUBSET (1..MaxOrders)
    /\ ledger = <<>>

NextSched ==
    \/ oracle_run
    \/ main_entry
    \/ sched_cycle_begin
    \/ sched_collect
    \/ sched_raise
    \/ sched_submit
    \/ sched_receipt
    \/ sched_timeout
    \/ sched_cycle_end
    \/ contract_mine
    \/ keyboard_interrupt

SpecSched == InitSched /\ [][NextSched]_vars

\* the transactions that executed and touched the order
ExecutedFor(id) ==
    {k \in 1..Len(ledger) :
        /\ ledger[k].status = 1
        /\ id \in {ledger[k].buyOrderId, ledger[k].sellOrderId}}

C16_LoopSurvives ==
    /\ [](~once => k_pc \notin {"raised", "returned"})
    /\ [](~once /\ k_pc = "ready" /\ cycles < MaxCycles =>
              ENABLED sched_cycle_begin)
    /\ [][~once /\ k_pc \in InCycle /\ k_pc' \notin InCycle =>
              k_pc' \in {"ready", "interrupted"}]_vars

\* run_continuous of main_v5: the first cycle ended in an exception and the
\* second cycle is running
C16_Witness ==
    /\ sched = "main_v5"
    /\ ~once
    /\ last_cycle = "error"
    /\ cycles = 2
    /\ k_pc = "collect"

\* C17: in RunOnce mode an exception raised inside the single cycle does not
\* leave the scheduler entry point.
C17_OnceReturns ==
    once => k_pc # "raised"

\* C18: in RunForever mode a KeyboardInterrupt ends the loop only between
\* cycles: at that point every match of the last cycle was attempted and no
\* submitted transaction is still awaited.
C18_StopBetweenCycles ==
    k_pc = "interrupted" =>
        /\ exit_at = "ready"
        /\ k_i > Len(cycle_matches) \/ cycles = 0

\* C19: no cycle of ROFLSwapOracle runs unless the contract's oracle() is the
\* signing address.
C19_OracleRegistered ==
    sched = "oracle" /\ k_pc \in InCycle => contract_oracle

\* ------------------------------------------------------------------------
\* rofl.py: register_periodic_task, its task_runner thread, and
\* stop_periodic_task. Each step is one read or write of _PERIODIC_TASKS.
\* ------------------------------------------------------------------------
\* register_periodic_task(func, interval_seconds): the entry is written with
\* "active": True and the thread is started
register_periodic_task ==
    /\ \E t \in TaskIds :
         /\ periodic_tasks[t] = "absent"
         /\ periodic_tasks' = [periodic_tasks EXCEPT ![t] = "active"]
         /\ runner_pc' = [runner_pc EXCEPT ![t] = "while"]
    /\ UNCHANGED <<loadVars, engineVars, settleVars, oracleVars, schedVars, run_count,
                   stop_returned, count_at_stop>>

\* while _PERIODIC_TASKS.get(task_id, {}).get("active", False):
runner_while ==
    /\ \E t \in TaskIds :
         /\ runner_pc[t] = "while"
         /\ runner_pc' = [runner_pc EXCEPT ![t] =
                IF periodic_tasks[t] = "active" THEN "check" ELSE "done"]
    /\ UNCHANGED <<loadVars, engineVars, settleVars, oracleVars, schedVars,
                   periodic_tasks, run_count, stop_returned, count_at_stop>>

\* if now - last_run >= interval: the task is due or it is not
runner_check ==
    /\ \E t \in TaskIds :
         /\ runner_pc[t] = "check"
         /\ \E due \in BOOLEAN :
              runner_pc' = [runner_pc EXCEPT ![t] =
                  IF due /\ run_count[t] < MaxRuns THEN "call" ELSE "sleep"]
    /\ UNCHANGED <<loadVars, engineVars, settleVars, oracleVars, schedVars,
                   periodic_tasks, run_count, stop_returned, count_at_stop>>

\* func(), then last_run is written, or the exception is printed
runner_call ==
    /\ \E t \in TaskIds :
         /\ runner_pc[t] = "call"
         /\ run_count' = [run_count EXCEPT ![t] = @ + 1]
         /\ runner_pc' = [runner_pc EXCEPT ![t] = "sleep"]
    /\ UNCHANGED <<loadVars, engineVars, settleVars, oracleVars, schedVars,
                   periodic_tasks, stop_returned, count_at_stop>>

\* time.sleep(min(1, interval / 10)), then the loop condition again
runner_sleep ==
    /\ \E t \in TaskIds :
         /\ runner_pc[t] = "sleep"
         /\ runner_pc' = [runner_pc EXCEPT ![t] = "while"]
    /\ UNCHANGED <<loadVars, engineVars, settleVars, oracleVars, schedVars,
                   periodic_tasks, run_count, stop_returned, count_at_stop>>

\* stop_periodic_task(task_id) of a registered task: "active" is set to
\* False and True is returned
stop_periodic_task ==
    /\ \E t \in TaskIds :
         /\ periodic_tasks[t] # "absent"
         /\ ~stop_returned[t]
         /\ periodic_tasks' = [periodic_tasks EXCEPT ![t] = "inactive"]
         /\ stop_returned' = [stop_returned EXCEPT ![t] = TRUE]
         /\ count_at_stop' = [count_at_stop EXCEPT ![t] = run_count[t]]
    /\ UNCHANGED <<loadVars, engineVars, settleVars, oracleVars, schedVars, runner_pc,
                   run_count>>

InitTasks ==
    /\ EngineIdle
    /\ SettleIdle
    /\ OracleIdle
    /\ SchedIdle
    /\ TasksIdle
    /\ LoadIdle

NextTasks ==
    \/ register_periodic_task
    \/ runner_while
    \/ runner_check
    \/ runner_call
    \/ runner_sleep
    \/ stop_periodic_task

SpecTasks == InitTasks /\ [][NextTasks]_vars

\* C20: once stop_periodic_task(task_id) has returned True, the task function
\* is not called again, whatever the interleaving with the runner thread.
C20_NoRunAfterStop ==
    \A t \in TaskIds : stop_returned[t] => run_count[t] = count_at_stop[t]


\* ------------------------------------------------------------------------
\* C21: the token check of MatchingEngine.find_matches
\* ------------------------------------------------------------------------
\* a MatchingEngine.find_matches call has returned and the book is the one
\* the call worked on (load_orders_begin clears `returned`)
V3Returned == engine = "v3" /\ pc = "idle" /\ returned # <<>>

LastReturned == returned[Len(returned)]

\* buy order b crossed every sell order of the call on price, size and owner,
\* but its token differs from the token of every sell order
CrossesOnOtherToken(b) ==
    /\ sell_orders # <<>>
    /\ sizeAtCall[b.orderId] > 0
    /\ \A s \in SeqToSet(sell_orders) :
         /\ b.token # s.token
         /\ b.price >= s.price
         /\ sizeAtCall[s.orderId] > 0
         /\ lower(b.owner) # lower(s.owner)

Loaders == {"oracle", "matcher", "v5"}

\* what a contract query gives: "error" is an exception raised by .call()
ExistsAnswers == {"true", "false", "error"}

FilledAnswers == {"true", "false", "error"}

\* getEncryptedOrder: bytes of an order, bytes of an order with size 0,
\* bytes no decoder accepts, nothing, or an exception
DataAnswers == {"order", "invalid", "garbage", "empty", "error"}

OwnerAnswers == {"addr", "empty", "error"}

Answers == [exists : ExistsAnswers, filled : FilledAnswers,
            data : DataAnswers, owner : OwnerAnswers]

\* RoflWeb3.call_function: except Exception -> return None
call_function(answer) == IF answer = "error" THEN "None" ELSE answer

\* Python truth value of an answer
Falsy(v) == v \in {"false", "None", "empty"}

never_skip(v) == FALSE

\* if is_filled: / if self.contract.functions.filledOrders(order_id).call():
filled_skip(v) == ~Falsy(v)

\* the queries one retrieval issued, in order, and what it produced:
\* "order" (built from the decoded bytes), "placeholder" (built from the
\* values _deserialize_order substitutes) or "None"
Retrieved(calls, ret) == [calls |-> calls, ret |-> ret]

\* ROFLSwapOracle.retrieve_order: every query sits in one try block whose
\* except returns None
oracle_retrieve_order(a) ==
    IF a.exists = "error" \/ Falsy(a.exists)
    THEN Retrieved(<<"orderExists">>, "None")
    ELSE IF a.filled = "error" \/ filled_skip(a.filled)
    THEN Retrieved(<<"orderExists", "filledOrders">>, "None")
    ELSE IF a.data = "error" \/ Falsy(a.data)
    THEN Retrieved(<<"orderExists", "filledOrders", "getEncryptedOrder">>,
                   "None")
    ELSE LET calls == <<"orderExists", "filledOrders", "getEncryptedOrder",
                        "getOrderOwner">>
         IN  IF a.owner = "error" \/ Falsy(a.owner)
             THEN Retrieved(calls, "None")
             ELSE IF a.data = "garbage"
             THEN Retrieved(calls, "None")
             ELSE Retrieved(calls, "order")

\* ROFLSwapMatcher.retrieve_order: each query goes through call_function
matcher_retrieve_order(a) ==
    LET exists == call_function(a.exists)
        is_filled == call_function(a.filled)
        owner == call_function(a.owner)
        encrypted_data == call_function(a.data)
    IN  IF Falsy(exists)
        THEN Retrieved(<<"orderExists">>, "None")
        ELSE IF filled_skip(is_filled)
        THEN Retrieved(<<"orderExists", "filledOrders">>, "None")
        ELSE IF Falsy(owner)
        THEN Retrieved(<<"orderExists", "filledOrders", "getOrderOwner">>,
                       "None")
        ELSE LET calls == <<"orderExists", "filledOrders", "getOrderOwner",
                            "getEncryptedOrder">>
             IN  IF Falsy(encrypted_data)
                 THEN Retrieved(calls, "None")
                 ELSE IF a.data = "garbage"
                 THEN Retrieved(calls, "None")
                 ELSE Retrieved(calls, "order")

\* MatchingEngineV5._deserialize_order: bytes no decoder accepts give the
\* placeholder dict (price 100 * 10**18, size 10 * 10**18)
deserialize_order(data) == IF data = "garbage" THEN "placeholder" ELSE "order"

\* one iteration of the for loop of MatchingEngineV5.load_orders
v5_load_order(a) ==
    IF a.filled # "error" /\ filled_skip(a.filled)
    THEN Retrieved(<<"filledOrders">>, "None")
    ELSE IF a.data = "error"
    THEN Retrieved(<<"filledOrders", "getEncryptedOrder">>, "None")
    ELSE LET calls == <<"filledOrders", "getEncryptedOrder", "getOrderOwner">>
         IN  IF a.owner = "error"
             THEN Retrieved(calls, "None")
             ELSE IF Falsy(a.data) \/ Falsy(a.owner)
             THEN Retrieved(calls, "None")
             ELSE IF a.data = "invalid"
             THEN Retrieved(calls, "None")
             ELSE Retrieved(calls, deserialize_order(a.data))

RetrieveOf(ld, a) ==
    CASE ld = "oracle" -> oracle_retrieve_order(a)
      [] ld = "matcher" -> matcher_retrieve_order(a)
      [] ld = "v5" -> v5_load_order(a)

Asked(calls, name) == \E i \in 1..Len(calls) : calls[i] = name

\* the record of one retrieval: the answers of the queries it issued
\* ("unasked" for the others), the queries, and the result
Seen(a, r) ==
    [exists |-> IF Asked(r.calls, "orderExists") THEN a.exists ELSE "unasked",
     filled |-> IF Asked(r.calls, "filledOrders") THEN a.filled ELSE "unasked",
     data |-> IF Asked(r.calls, "getEncryptedOrder") THEN a.data ELSE "unasked",
     owner |-> IF Asked(r.calls, "getOrderOwner") THEN a.owner ELSE "unasked",
     calls |-> r.calls, ret |-> r.ret]

\* order_count = getTotalOrderCount(); orders = []
loader_begin ==
    /\ r_pc = "idle"
    /\ \E n \in 0..MaxOrders : r_count' = n
    /\ r_id' = 1
    /\ r_seen' = [id \in 1..MaxOrders |-> NotSeen]
    /\ r_book' = <<>>
    /\ r_pc' = "load"
    /\ UNCHANGED <<engineVars, settleVars, oracleVars, schedVars, taskVars,
                   loader>>

\* one pass of "for order_id in range(1, order_count + 1)": the retrieval and
\* the append of what it produced
loader_step ==
    /\ r_pc = "load"
    /\ r_id <= r_count
    /\ \E a \in Answers :
         LET r == RetrieveOf(loader, a)
         IN  /\ r_seen' = [r_seen EXCEPT ![r_id] = Seen(a, r)]
             /\ r_book' = IF r.ret = "None" THEN r_book
                          ELSE Append(r_book, [orderId |-> r_id, from |-> r.ret])
    /\ r_id' = r_id + 1
    /\ UNCHANGED <<engineVars, settleVars, oracleVars, schedVars, taskVars,
                   loader, r_pc, r_count>>

\* the loop is exhausted: the book of the cycle is complete
loader_end ==
    /\ r_pc = "load"
    /\ r_id > r_count
    /\ r_pc' = "idle"
    /\ UNCHANGED <<engineVars, settleVars, oracleVars, schedVars, taskVars,
                   loader, r_count, r_id, r_seen, r_book>>

InitLoad ==
    /\ EngineIdle
    /\ SettleIdle
    /\ OracleIdle
    /\ SchedIdle
    /\ TasksIdle
    /\ loader \in Loaders
    /\ r_pc = "idle"
    /\ r_count = 0
    /\ r_id = 0
    /\ r_seen = [id \in 1..MaxOrders |-> NotSeen]
    /\ r_book = <<>>

NextLoad ==
    \/ loader_begin
    \/ loader_step
    \/ loader_end

SpecLoad == InitLoad /\ [][NextLoad]_vars

InBook(id) == \E i \in 1..Len(r_book) : r_book[i].orderId = id


\* ------------------------------------------------------------------------
\* C22: orderExists, then filledOrders, then nothing more for such an order
\* ------------------------------------------------------------------------
\* the order id was answered "does not exist" or "filled"
GoneOrFilled(id) ==
    r_seen[id].exists = "false" \/ r_seen[id].filled = "true"

\* C22: ROFLSwapOracle.retrieve_order and ROFLSwapMatcher.retrieve_order ask
\* orderExists first and filledOrders second; when orderExists answers false
\* or filledOrders answers true the call returns None having issued neither
\* getOrderOwner nor getEncryptedOrder, and the order is not in the cycle's
\* book.
C22_EarlyReturn ==
    loader \in {"oracle", "matcher"} =>
        \A id \in 1..MaxOrders :
            LET calls == r_seen[id].calls
            IN  /\ Len(calls) >= 1 => calls[1] = "orderExists"
                /\ Len(calls) >= 2 => calls[2] = "filledOrders"
                /\ GoneOrFilled(id) =>
                     /\ r_seen[id].ret = "None"
                     /\ ~Asked(calls, "getOrderOwner")
                     /\ ~Asked(calls, "getEncryptedOrder")
                     /\ ~InBook(id)

\* a matcher cycle met an order that does not exist and a filled one, and
\* admitted a third
C22_Witness ==
    /\ loader = "matcher"
    /\ r_pc = "idle"
    /\ \E i, j, k \in 1..MaxOrders :
         /\ r_seen[i].exists = "false"
         /\ r_seen[j].filled = "true"
         /\ r_seen[j].calls = <<"orderExists", "filledOrders">>
         /\ InBook(k)


\* ------------------------------------------------------------------------
\* C23: a failing filledOrders query
\* ------------------------------------------------------------------------
\* C23: in ROFLSwapMatcher.retrieve_order (over RoflWeb3.call_function) and
\* in MatchingEngineV5.load_orders, an order whose filledOrders query raised
\* is retrieved as None and is not admitted into the book of the cycle.
C23_FilledErrorStops ==
    loader \in {"matcher", "v5"} =>
        \A id \in 1..MaxOrders :
            r_seen[id].filled = "error" =>
                /\ r_seen[id].ret = "None"
                /\ ~InBook(id)

\* ------------------------------------------------------------------------
\* C24: bytes that cannot be decoded
\* ------------------------------------------------------------------------
\* the queries of the order id all answered with usable values
FullyAnswered(id) ==
    /\ r_seen[id].filled = "false"
    /\ r_seen[id].data = "order"
    /\ r_seen[id].owner = "addr"

\* C24: MatchingEngineV5.load_orders drops an order whose bytes cannot be
\* decoded: the book holds no order built from placeholder values and no
\* order whose bytes were undecodable, while every order of the cycle whose
\* queries and decoding succeeded is in the book.
C24_UndecodableDropped ==
    loader = "v5" =>
        /\ \A i \in 1..Len(r_book) : r_book[i].from # "placeholder"
        /\ \A id \in 1..MaxOrders :
             /\ r_seen[id].data = "garbage" => ~InBook(id)
             /\ FullyAnswered(id) => InBook(id)


\* ------------------------------------------------------------------------
\* C25: receipt polling is bounded and execute_matches terminates
\* ------------------------------------------------------------------------
\* one step of execute_matches itself (not of the chain)
execute_matches_step ==
    \/ settle_exception
    \/ settle_no_key
    \/ settle_submit
    \/ poll_miss
    \/ poll_receipt
    \/ poll_timeout
    \/ execute_matches_return

\* the caller's thread keeps running; nothing is assumed about the chain
SpecSettleFair == SpecSettle /\ WF_vars(execute_matches_step)

\* `attempts` counts the receipt queries of the current transaction that gave
\* nothing; the query that returns the receipt is one more
PollsBounded == attempts <= MaxPolls

\* the step that records the outcome of a submitted match
PollingEnds == s_pc = "poll" /\ s_pc' = "loop"

LastResult == results'[Len(results')]

\* a receipt is recorded by a query that is at most the 30th; the timeout is
\* recorded after exactly 30 queries, as a failure with hash and error
OutcomeWithinBudget ==
    PollingEnds =>
        /\ Len(results') = Len(results) + 1
        /\ LastResult.txHash
        /\ LastResult.receipt # NoReceipt => attempts + 1 <= MaxPolls
        /\ LastResult.receipt = NoReceipt =>
              /\ attempts = MaxPolls
              /\ ~LastResult.success
              /\ LastResult.error = "timeout"

\* C25: at most 30 receipt queries are made for a submitted match (a query
\* that raises counts), after the 30th miss the match is recorded as
\* unsuccessful with its transaction hash and an error, and every call of
\* execute_matches returns, whether or not the chain ever confirms anything.
C25_PollingBounded ==
    /\ []PollsBounded
    /\ [][OutcomeWithinBudget]_vars
    /\ (s_pc \in {"loop", "poll"}) ~> (s_pc = "done")

\* the call returned although neither of its two transactions was ever mined:
\* both matches are recorded with a hash and the timeout error
C25_Witness ==
    /\ s_pc = "done"
    /\ Len(results) = 2
    /\ \A k \in 1..2 : results[k].error = "timeout" /\ results[k].txHash
    /\ \A k \in 1..Len(txs) : txs[k].status = Pending

\* ------------------------------------------------------------------------
\* C26: nonces of the transactions of one execute_matches call
\* ------------------------------------------------------------------------
\* C26: no two transactions submitted within one execute_matches call carry
\* the same nonce, also when an earlier transaction of the call is still
\* unconfirmed after its polling budget ran out.
C26_DistinctNonces ==
    \A j, k \in 1..Len(txs) : j # k => txs[j].nonce # txs[k].nonce


\* ------------------------------------------------------------------------
\* C27: processing order of MatchingEngine.find_matches
\* ------------------------------------------------------------------------
\* load_orders admits orders by ascending order id, so "first seen" is the
\* smaller orderId
BuyFirst(a, b) ==
    a.price > b.price \/ (a.price = b.price /\ a.orderId < b.orderId)

SellFirst(a, b) ==
    a.price < b.price \/ (a.price = b.price /\ a.orderId < b.orderId)

PosBuy(id) == CHOOSE i \in 1..Len(buy_orders) : buy_orders[i].orderId = id

PosSell(id) == CHOOSE i \in 1..Len(sell_orders) : sell_orders[i].orderId = id

\* the list of matches follows the walk: buys in book order and, for one buy,
\* sells in book order
InWalkOrder(ms) ==
    \A i, j \in 1..Len(ms) :
        i < j =>
            \/ PosBuy(ms[i].buyOrderId) < PosBuy(ms[j].buyOrderId)
            \/ /\ ms[i].buyOrderId = ms[j].buyOrderId
               /\ PosSell(ms[i].sellOrderId) < PosSell(ms[j].sellOrderId)

\* a call returned that had both books non-empty, hence sorted and walked them
Walked == returned # <<>> /\ buy_orders # <<>> /\ sell_orders # <<>>

\* C27: while MatchingEngine.find_matches walks and after it returned, the
\* buy book is in descending price and the sell book in ascending price, with
\* orders of one price in the order load_orders admitted them, and the match
\* list (running and returned) follows that order: buys by book position and,
\* for one buy, sells by book position, so of two equal-priced sells the
\* earlier-admitted one is matched first.
C27_PriceTimePriority ==
    (engine = "v3" /\ (pc \in {"outer", "inner"} \/ Walked)) =>
        /\ \A i, j \in 1..Len(buy_orders) :
             i < j => BuyFirst(buy_orders[i], buy_orders[j])
        /\ \A i, j \in 1..Len(sell_orders) :
             i < j => SellFirst(sell_orders[i], sell_orders[j])
        /\ InWalkOrder(matches)
        /\ \A c \in 1..Len(returned) : InWalkOrder(returned[c])

\* one buy order swept two sell orders of the same price: the match with the
\* sell order of the smaller id comes first in the returned list
C27_Witness ==
    /\ engine = "v3"
    /\ pc = "idle"
    /\ Len(returned) = 1
    /\ Len(returned[1]) = 2
    /\ returned[1][1].buyOrderId = returned[1][2].buyOrderId
    /\ returned[1][1].price = returned[1][2].price
    /\ returned[1][1].sellOrderId < returned[1][2].sellOrderId


\* ------------------------------------------------------------------------
\* C28: nothing eligible is left when find_matches returns
\* ------------------------------------------------------------------------
\* a buy and a sell order that both have size left, trade the same token,
\* belong to different addresses (compared as the engine compares them,
\* ignoring letter case) and cross on price
EligiblePair(b, s) ==
    /\ b.size > 0
    /\ s.size > 0
    /\ b.token = s.token
    /\ lower(b.owner) # lower(s.owner)
    /\ b.price >= s.price

\* C28: when MatchingEngine.find_matches has returned, the book holds no buy
\* order and sell order that both still have remaining size > 0, share a
\* token, have different owners and satisfy buy.price >= sell.price.
C28_NothingLeft ==
    V3Returned =>
        \A b \in SeqToSet(buy_orders) : \A s \in SeqToSet(sell_orders) :
            ~EligiblePair(b, s)

\* a call matched something and left a buy order and a sell order of one
\* token with size on both sides, apart only on price
C28_Witness ==
    /\ V3Returned
    /\ LastReturned # <<>>
    /\ \E b \in SeqToSet(buy_orders) : \E s \in SeqToSet(sell_orders) :
         /\ b.size > 0
         /\ s.size > 0
         /\ b.token = s.token
         /\ lower(b.owner) # lower(s.owner)
         /\ b.price < s.price


\* ------------------------------------------------------------------------
\* C29: the matches of one cycle against the contract's filled flags
\* ------------------------------------------------------------------------
\* executeMatch for each match of ms in the order given, sent by the
\* registered oracle and with nobody else acting on the contract: whether
\* each one goes through, starting from the filled flags `filled`; a match
\* that goes through marks its two orders filled
RECURSIVE SettleInOrder(_, _)
SettleInOrder(ms, filled) ==
    IF ms = <<>> THEN <<>>
    ELSE LET tx == Head(ms)
             ok == executeMatch_accepts(filled, TRUE, tx)
         IN  <<ok>> \o SettleInOrder(Tail(ms),
                 IF ok THEN filled \cup {tx.buyOrderId, tx.sellOrderId}
                 ELSE filled)

AsAdmitted(book) ==
    [k \in 1..Len(book) |->
        LET o == CHOOSE o \in SeqToSet(book) :
                    Cardinality({p \in SeqToSet(book) : p.orderId <= o.orderId}) = k
        IN  [o EXCEPT !.size = sizeAtCall[o.orderId]]]

\* buy_orders_by_token[token] / sell_orders_by_token[token]
OfToken(os, token) == SelectSeq(os, LAMBDA o : o.token = token)

\* the nested loops of test_match_logic.find_matches over one token's sorted
\* lists, from buy position i and sell position j on
RECURSIVE grouped_walk(_, _, _, _)
grouped_walk(buys, sells, i, j) ==
    IF i > Len(buys) THEN <<>>
    ELSE IF j > Len(sells) THEN grouped_walk(buys, sells, i + 1, 1)
    ELSE LET buy_order == buys[i]
             sell_order == sells[j]
             quantity == Min(buy_order.size, sell_order.size)
         IN  IF \/ sell_order.size = 0
                \/ buy_order.price < sell_order.price
                \/ buy_order.owner = sell_order.owner
                \/ ~(quantity > 0)
             THEN grouped_walk(buys, sells, i, j + 1)
             ELSE LET nb == [buys EXCEPT ![i].size = @ - quantity]
                      ns == [sells EXCEPT ![j].size = @ - quantity]
                  IN  <<[buyOrderId |-> buy_order.orderId,
                         sellOrderId |-> sell_order.orderId,
                         amount |-> quantity,
                         price |-> sell_order.price]>>
                      \o (IF nb[i].size = 0
                          THEN grouped_walk(nb, ns, i + 1, 1)
                          ELSE grouped_walk(nb, ns, i, j + 1))

\* test_match_logic.find_matches, the part of its result for one token: group
\* by token, sort buys by price descending and sells ascending, walk
grouped_find_matches(buys, sells, token) ==
    grouped_walk(SortDesc(OfToken(buys, token)),
                 SortAsc(OfToken(sells, token)), 1, 1)

\* the matches of one token in a list MatchingEngine.find_matches returned
MatchesOfToken(ms, token) ==
    LET sel == SelectSeq(ms, LAMBDA m : m.buyToken = token)
    IN  [k \in 1..Len(sel) |->
            [buyOrderId |-> sel[k].buyOrderId,
             sellOrderId |-> sel[k].sellOrderId,
             amount |-> sel[k].amount, price |-> sel[k].price]]

\* C30: for each token, the matches of that token in the list the global walk
\* of MatchingEngine.find_matches returns are exactly, and in the same order,
\* the matches (buy id, sell id, amount, price) that the per-token-grouped
\* find_matches of deprecated/test_match_logic.py produces from that token's
\* buy and sell orders alone.
C30_SameAsGrouped ==
    (V3Returned /\ Len(returned) = 1) =>
        \A token \in Tokens :
            MatchesOfToken(returned[1], token) =
                grouped_find_matches(AsAdmitted(buy_orders),
                                     AsAdmitted(sell_orders), token)

====
